---- MODULE Spec2Model ----
(***************************************************************************)
(* Rentarium: the payment ledger (EnhancedPaymentStorage, v3), the         *)
(* duplicate-preventing PaymentStorage (v2), the admin pages (tenants,     *)
(* units, create-tenant form) and the login, as state machines over the    *)
(* localStorage blobs they read and write.                                 *)
(*                                                                         *)
(* Money is counted in mills (1/1000 of a peso): 100000 is 100.00.  A      *)
(* value the code passes through toFixed(2) is a multiple of 10 mills.     *)
(* Months "YYYY-MM" are month indices year*12 + (month-1).                 *)
(* Identifiers PAY-000n, BILL-000n, RENT-000n are the number n.            *)
(***************************************************************************)
EXTENDS Integers, Sequences, FiniteSets, TLC

VARIABLES
    tenants,       \* localStorage 'tenants': username -> tenant record
    session,       \* localStorage 'rentarium_session': the username, or NoSession
    today,         \* the clock: the local calendar date [y, m, d]
    tz,            \* the browser's time zone: -1 west of UTC, 0 UTC, 1 east
    utcShift,      \* TRUE when the clock's UTC date is not its local date
    tieUp,         \* how toFixed(2) settles a sum half way between two cents
    payments,      \* v3 'rentarium_payments'
    bills,         \* v3 'rentarium_bills'
    rentStatuses,  \* v3 'rentarium_rent_status'
    rates,         \* v3 'rentarium_utility_rates'
    paymentsV2,    \* v2 'rentarium_payments'
    localStorage,  \* the blobs of the admin pages: 'tenants' (the whole list),
                   \* 'units', 'rental_contracts', 'rentarium_users'
    tenantsPage,   \* tenants-section.js: its tenants, units and the form's tenantId
    unitsPage,     \* unit-management-test.js: its units and tenants
    createPage,    \* the create-tenant form: the units its dropdown offers
    pending        \* page -> TRUE when a storage event is queued for it

pages == <<localStorage, tenantsPage, unitsPage, createPage, pending>>

vars == <<tenants, session, today, tz, utcShift, tieUp, payments, bills, rentStatuses,
          rates, paymentsV2, pages>>

env == <<tenants, session, today, tz, utcShift, tieUp, pages>>

\* what the admin pages and the login never touch
ledger == <<tenants, today, tz, utcShift, tieUp, payments, bills, rentStatuses, rates,
            paymentsV2>>

----------------------------------------------------------------------------
(* Bounds of the model.                                                    *)

MaxPayments == 2
MaxHistory == 2
MaxInstalments == 3
MaxV2Payments == 2
MaxFewPayments == 1
MaxTenants == 2

----------------------------------------------------------------------------
(* Values.                                                                 *)

NoSession == "none"
NoMonth == -1
NoBill == 0
NoDate == [y |-> 0, m |-> 0, d |-> 0]
Usernames == {"t1", "t2"}
Statuses == {"pending", "verified", "rejected", "completed"}

MonthIndex(y, m) == y * 12 + (m - 1)

\* getCurrentMonth: the local calendar month of the clock
getCurrentMonth == MonthIndex(today.y, today.m)

\* Number.prototype.toFixed(2) followed by parseFloat: the multiple of 0.01
\* nearest to the double.  The double nearest to a decimal half way between
\* two cents lies a little above or a little below it, depending on the
\* operands (0 + 33.335 gives 33.34, 100 - 33.335 gives 66.66); the model
\* does not carry the binary digits, so tieUp decides: TRUE rounds such a
\* value away from zero, FALSE towards zero.
\* The argument is n/den mills; the result is in mills.
ToFixed2(n, den) ==
    LET a == IF n >= 0 THEN n ELSE -n
        q == a \div (10 * den)
        r == a % (10 * den)
        cents == IF 2 * r > 10 * den THEN q + 1
                 ELSE IF 2 * r < 10 * den THEN q
                 ELSE IF tieUp THEN q + 1 ELSE q
    IN IF n >= 0 THEN cents * 10 ELSE -(cents * 10)

Round2(x) == ToFixed2(x, 1)

MaxId(seq) == IF Len(seq) = 0 THEN 0
              ELSE CHOOSE n \in {seq[i].id : i \in 1..Len(seq)} :
                     \A i \in 1..Len(seq) : seq[i].id <= n

\* Array.prototype.findIndex by id; 0 when there is none
IndexOfId(seq, id) ==
    IF \E i \in 1..Len(seq) : seq[i].id = id
    THEN CHOOSE i \in 1..Len(seq) :
           seq[i].id = id /\ \A j \in 1..(i - 1) : seq[j].id # id
    ELSE 0

\* find(s => s.tenantId === tenantId && s.month === month); 0 when none
IndexOfKey(seq, tenantId, month) ==
    IF \E i \in 1..Len(seq) : seq[i].tenantId = tenantId /\ seq[i].month = month
    THEN CHOOSE i \in 1..Len(seq) :
           /\ seq[i].tenantId = tenantId /\ seq[i].month = month
           /\ \A j \in 1..(i - 1) : ~(seq[j].tenantId = tenantId /\ seq[j].month = month)
    ELSE 0

\* Array.prototype.filter
RECURSIVE FilterOutId(_, _)
FilterOutId(seq, id) ==
    IF Len(seq) = 0 THEN <<>>
    ELSE IF Head(seq).id = id THEN FilterOutId(Tail(seq), id)
         ELSE <<Head(seq)>> \o FilterOutId(Tail(seq), id)

----------------------------------------------------------------------------
(* EnhancedPaymentStorage (v3).                                            *)

\* getCurrentTenant: the tenant whose username is the session's, or none
HasCurrentTenant == session \in DOMAIN tenants

\* getCurrentTenantById(...).monthlyRent, 0 for an unknown tenant
MonthlyRentOf(tenantId) ==
    IF tenantId \in DOMAIN tenants THEN tenants[tenantId].rentAmount ELSE 0

\* Variant of getRentStatus that stores a new record without looking for one
\* of the (tenant, month): C15_OneRentStatusPerTenantAndMonth fails with it.
getRentStatusAlways(statuses, tenantId, month) ==
    Append(statuses,
           [id |-> MaxId(statuses) + 1,
            tenantId |-> tenantId,
            month |-> month,
            required_amount |-> MonthlyRentOf(tenantId),
            paid_amount |-> 0,
            remaining_amount |-> MonthlyRentOf(tenantId),
            status |-> "unpaid",
            payments |-> <<>>])

\* getRentStatus: fetch, or create and store
getRentStatus(statuses, tenantId, month) ==
    IF IndexOfKey(statuses, tenantId, month) # 0 THEN statuses
    ELSE Append(statuses,
           [id |-> MaxId(statuses) + 1,
            tenantId |-> tenantId,
            month |-> month,
            required_amount |-> MonthlyRentOf(tenantId),
            paid_amount |-> 0,
            remaining_amount |-> MonthlyRentOf(tenantId),
            status |-> "unpaid",
            payments |-> <<>>])

\* Variant of the rent update that caps paid_amount at required_amount, the
\* way updateBillStatus caps a bill: C4_RentReversalExact fails with it.
ApplyToRentStatusCapped(s, paidAmount, paymentId) ==
    LET sum == Round2(s.paid_amount + paidAmount)
        paid == IF sum > s.required_amount THEN s.required_amount ELSE sum
        remaining == Round2(s.required_amount - paid)
    IN [s EXCEPT !.paid_amount = paid,
                 !.remaining_amount = IF remaining <= 0 THEN 0 ELSE remaining,
                 !.payments = Append(@, paymentId),
                 !.status = IF remaining <= 0 THEN "paid"
                            ELSE IF paid > 0 THEN "partial" ELSE "unpaid"]

\* Variant of the rent update that tests remaining < 0 where the code tests
\* remaining <= 0: C5_PaidWhenSumIsRequired fails with it.
ApplyToRentStatusStrict(s, paidAmount, paymentId) ==
    LET paid == Round2(s.paid_amount + paidAmount)
        remaining == Round2(s.required_amount - paid)
    IN [s EXCEPT !.paid_amount = paid,
                 !.remaining_amount = IF remaining < 0 THEN 0 ELSE remaining,
                 !.payments = Append(@, paymentId),
                 !.status = IF remaining < 0 THEN "paid"
                            ELSE IF paid > 0 THEN "partial" ELSE "unpaid"]

\* Variant of the rent update that stores the difference required - paid as
\* it is, below zero as well: C22_RemainingIsShortfall fails with it.
ApplyToRentStatusUnclamped(s, paidAmount, paymentId) ==
    LET paid == Round2(s.paid_amount + paidAmount)
        remaining == Round2(s.required_amount - paid)
    IN [s EXCEPT !.paid_amount = paid,
                 !.remaining_amount = remaining,
                 !.payments = Append(@, paymentId),
                 !.status = IF remaining <= 0 THEN "paid"
                            ELSE IF paid > 0 THEN "partial" ELSE "unpaid"]

\* the body of updateRentStatus on the record it found
ApplyToRentStatus(s, paidAmount, paymentId) ==
    LET paid == Round2(s.paid_amount + paidAmount)
        remaining == Round2(s.required_amount - paid)
    IN [s EXCEPT !.paid_amount = paid,
                 !.remaining_amount = IF remaining <= 0 THEN 0 ELSE remaining,
                 !.payments = Append(@, paymentId),
                 !.status = IF remaining <= 0 THEN "paid"
                            ELSE IF paid > 0 THEN "partial" ELSE "unpaid"]

\* updateRentStatus.  When no record matches, getRentStatus stores a new one,
\* but the list read before it (without the new record) is what is written
\* back, at index -1, which JSON.stringify drops: storage keeps the old list.
updateRentStatus(statuses, tenantId, month, paidAmount, paymentId) ==
    LET i == IndexOfKey(statuses, tenantId, month)
    IN IF i = 0 THEN statuses
       ELSE LET s == ApplyToRentStatus(statuses[i], paidAmount, paymentId)
            IN [statuses EXCEPT ![IndexOfId(statuses, s.id)] = s]

\* the body of updateBillStatus on the bill it found
ApplyToBill(b, paidAmount, paymentId) ==
    LET paid == Round2(b.paid_amount + paidAmount)
    IN [b EXCEPT !.paid_amount = IF paid >= b.total_amount THEN b.total_amount ELSE paid,
                 !.payments = Append(@, paymentId),
                 !.status = IF paid >= b.total_amount THEN "paid"
                            ELSE IF paid > 0 THEN "partial" ELSE "unpaid"]

\* updateBillStatus: null (nothing written) for an unknown bill
updateBillStatus(bs, billId, paidAmount, paymentId) ==
    LET i == IndexOfId(bs, billId)
    IN IF i = 0 THEN bs
       ELSE [bs EXCEPT ![i] = ApplyToBill(bs[i], paidAmount, paymentId)]

\* getUtilityRates merged with newRates, as updateUtilityRates stores it
updateUtilityRates(currentRates, newRates) ==
    [k \in DOMAIN currentRates |->
        IF k \in DOMAIN newRates THEN newRates[k] ELSE currentRates[k]]

\* Variant of generateBill that starts a regenerated bill unpaid again:
\* C12_RegenerationInPlace fails with it.
generateBillFresh(bs, tenantId, month, electricity_kwh, water_cubic) ==
    LET i == IndexOfKey(bs, tenantId, month)
        electricity_amount == ToFixed2(electricity_kwh * rates.electricity_rate, 100)
        water_amount == ToFixed2(water_cubic * rates.water_rate, 100)
        bill == [id |-> IF i # 0 THEN bs[i].id ELSE MaxId(bs) + 1,
                 tenantId |-> tenantId,
                 month |-> month,
                 electricity_kwh |-> electricity_kwh,
                 electricity_rate |-> rates.electricity_rate,
                 electricity_amount |-> electricity_amount,
                 water_cubic |-> water_cubic,
                 water_rate |-> rates.water_rate,
                 water_amount |-> water_amount,
                 total_amount |-> Round2(electricity_amount + water_amount),
                 paid_amount |-> 0,
                 status |-> "unpaid",
                 createdDate |-> IF i # 0 THEN bs[i].createdDate ELSE today,
                 payments |-> IF i # 0 THEN bs[i].payments ELSE <<>>]
    IN IF i # 0 THEN [bs EXCEPT ![IndexOfId(bs, bill.id)] = bill]
       ELSE Append(bs, bill)

\* Variant of generateBill that stores the regenerated bill as a further
\* record: C14_OneBillPerTenantAndMonth fails with it.
generateBillAppend(bs, tenantId, month, electricity_kwh, water_cubic) ==
    LET i == IndexOfKey(bs, tenantId, month)
        electricity_amount == ToFixed2(electricity_kwh * rates.electricity_rate, 100)
        water_amount == ToFixed2(water_cubic * rates.water_rate, 100)
        bill == [id |-> IF i # 0 THEN bs[i].id ELSE MaxId(bs) + 1,
                 tenantId |-> tenantId,
                 month |-> month,
                 electricity_kwh |-> electricity_kwh,
                 electricity_rate |-> rates.electricity_rate,
                 electricity_amount |-> electricity_amount,
                 water_cubic |-> water_cubic,
                 water_rate |-> rates.water_rate,
                 water_amount |-> water_amount,
                 total_amount |-> Round2(electricity_amount + water_amount),
                 paid_amount |-> IF i # 0 THEN bs[i].paid_amount ELSE 0,
                 status |-> IF i # 0 THEN bs[i].status ELSE "unpaid",
                 createdDate |-> IF i # 0 THEN bs[i].createdDate ELSE today,
                 payments |-> IF i # 0 THEN bs[i].payments ELSE <<>>]
    IN Append(bs, bill)

\* generateBill: amounts from the current rates; an existing bill of the
\* (tenant, month) keeps id, paid_amount, status, createdDate and payments.
\* Consumption is counted in hundredths of a kWh or cubic meter, a rate in
\* mills; createdDate is the date of the clock.
generateBill(bs, tenantId, month, electricity_kwh, water_cubic) ==
    LET i == IndexOfKey(bs, tenantId, month)
        electricity_amount == ToFixed2(electricity_kwh * rates.electricity_rate, 100)
        water_amount == ToFixed2(water_cubic * rates.water_rate, 100)
        bill == [id |-> IF i # 0 THEN bs[i].id ELSE MaxId(bs) + 1,
                 tenantId |-> tenantId,
                 month |-> month,
                 electricity_kwh |-> electricity_kwh,
                 electricity_rate |-> rates.electricity_rate,
                 electricity_amount |-> electricity_amount,
                 water_cubic |-> water_cubic,
                 water_rate |-> rates.water_rate,
                 water_amount |-> water_amount,
                 total_amount |-> Round2(electricity_amount + water_amount),
                 paid_amount |-> IF i # 0 THEN bs[i].paid_amount ELSE 0,
                 status |-> IF i # 0 THEN bs[i].status ELSE "unpaid",
                 createdDate |-> IF i # 0 THEN bs[i].createdDate ELSE today,
                 payments |-> IF i # 0 THEN bs[i].payments ELSE <<>>]
    IN IF i # 0 THEN [bs EXCEPT ![IndexOfId(bs, bill.id)] = bill]
       ELSE Append(bs, bill)

\* The three blobs the payment operations read and write
Store == [payments |-> payments, bills |-> bills, rentStatuses |-> rentStatuses]

\* createRentPayment: null (nothing written) without a tenant of the session
createRentPayment(S, monthArg, amount, status) ==
    IF ~HasCurrentTenant THEN S ELSE
    LET month == IF monthArg = NoMonth THEN getCurrentMonth ELSE monthArg
        created == getRentStatus(S.rentStatuses, session, month)
        payment == [id |-> MaxId(S.payments) + 1,
                    payment_type |-> "rent",
                    billId |-> NoBill,
                    tenantId |-> session,
                    amount |-> amount,
                    month |-> month,
                    status |-> status,
                    paidDate |-> FALSE]
    IN [S EXCEPT !.payments = Append(@, payment),
                 !.rentStatuses =
                     IF status = "verified"
                     THEN updateRentStatus(created, session, month, amount, payment.id)
                     ELSE created]

\* Variant of createBillPayment that does not look the bill up:
\* C19_FailedOperationsWriteNothing fails with it.
createBillPaymentUnchecked(S, billId, amount, status) ==
    IF ~HasCurrentTenant THEN S ELSE
    LET payment == [id |-> MaxId(S.payments) + 1,
                    payment_type |-> "bill",
                    billId |-> billId,
                    tenantId |-> session,
                    amount |-> amount,
                    month |-> NoMonth,
                    status |-> status,
                    paidDate |-> FALSE]
    IN [S EXCEPT !.payments = Append(@, payment),
                 !.bills =
                     IF status = "verified"
                     THEN updateBillStatus(@, billId, amount, payment.id)
                     ELSE @]

\* createBillPayment: null (nothing written) without a tenant of the session
\* or for a billId that matches no bill
createBillPayment(S, billId, amount, status) ==
    IF ~HasCurrentTenant \/ IndexOfId(S.bills, billId) = 0 THEN S ELSE
    LET bill == S.bills[IndexOfId(S.bills, billId)]
        payment == [id |-> MaxId(S.payments) + 1,
                    payment_type |-> "bill",
                    billId |-> bill.id,
                    tenantId |-> session,
                    amount |-> amount,
                    month |-> bill.month,
                    status |-> status,
                    paidDate |-> FALSE]
    IN [S EXCEPT !.payments = Append(@, payment),
                 !.bills =
                     IF status = "verified"
                     THEN updateBillStatus(@, bill.id, amount, payment.id)
                     ELSE @]

\* the ledger entry a payment's amount is applied to
ApplyPayment(S, p, amount) ==
    IF p.payment_type = "rent"
    THEN [S EXCEPT !.rentStatuses = updateRentStatus(@, p.tenantId, p.month, amount, p.id)]
    ELSE [S EXCEPT !.bills = updateBillStatus(@, p.billId, amount, p.id)]

\* Variant of updatePaymentStatus that applies the amount for 'verified'
\* only, as the create operations do: C20_VerificationAppliesAmount fails
\* with it.
updatePaymentStatusVerifiedOnly(S, paymentId, status) ==
    LET i == IndexOfId(S.payments, paymentId)
    IN IF i = 0 THEN S
       ELSE LET p == S.payments[i]
                T == IF status = "verified" THEN ApplyPayment(S, p, p.amount)
                     ELSE IF status = "rejected" /\ p.status = "verified"
                          THEN ApplyPayment(S, p, -p.amount)
                     ELSE S
            IN [T EXCEPT !.payments[i].status = status,
                         !.payments[i].paidDate =
                             IF status \in {"verified", "completed"} THEN TRUE ELSE @]

\* updatePaymentStatus: null (nothing written) for an unknown payment id
updatePaymentStatus(S, paymentId, status) ==
    LET i == IndexOfId(S.payments, paymentId)
    IN IF i = 0 THEN S
       ELSE LET p == S.payments[i]
                T == IF status \in {"verified", "completed"} THEN ApplyPayment(S, p, p.amount)
                     ELSE IF status = "rejected" /\ p.status = "verified"
                          THEN ApplyPayment(S, p, -p.amount)
                     ELSE S
            IN [T EXCEPT !.payments[i].status = status,
                         !.payments[i].paidDate =
                             IF status \in {"verified", "completed"} THEN TRUE ELSE @]

deletePayment(S, paymentId) ==
    [S EXCEPT !.payments = FilterOutId(@, paymentId)]

----------------------------------------------------------------------------
(* Calendar dates, as the JavaScript Date object computes them.            *)

IsLeap(y) == (y % 4 = 0 /\ y % 100 # 0) \/ y % 400 = 0

DaysInMonth(y, m) ==
    IF m = 2 THEN (IF IsLeap(y) THEN 29 ELSE 28)
    ELSE IF m \in {4, 6, 9, 11} THEN 30 ELSE 31

\* a date whose day may exceed its month's length rolls into the next months
RECURSIVE RollDays(_, _, _)
RollDays(y, m, d) ==
    IF d <= DaysInMonth(y, m) THEN [y |-> y, m |-> m, d |-> d]
    ELSE IF m = 12 THEN RollDays(y + 1, 1, d - DaysInMonth(y, m))
         ELSE RollDays(y, m + 1, d - DaysInMonth(y, m))

\* new Date(year, monthIndex, day) and setMonth(monthIndex): monthIndex is
\* 0-based and may lie outside 0..11, day is 1..31
MakeDate(year, monthIndex, day) ==
    RollDays(year + (monthIndex \div 12), (monthIndex % 12) + 1, day)

DateLT(a, b) ==
    \/ a.y < b.y
    \/ a.y = b.y /\ a.m < b.m
    \/ a.y = b.y /\ a.m = b.m /\ a.d < b.d

DateLE(a, b) == a = b \/ DateLT(a, b)

NextDay(a) == RollDays(a.y, a.m, a.d + 1)

PrevDay(a) ==
    IF a.d > 1 THEN [a EXCEPT !.d = a.d - 1]
    ELSE IF a.m > 1 THEN [y |-> a.y, m |-> a.m - 1, d |-> DaysInMonth(a.y, a.m - 1)]
         ELSE [y |-> a.y - 1, m |-> 12, d |-> 31]

\* the UTC calendar date of the clock
UtcToday ==
    IF utcShift /\ tz > 0 THEN PrevDay(today)
    ELSE IF utcShift /\ tz < 0 THEN NextDay(today)
    ELSE today

\* new Date("YYYY-MM-DD") is midnight UTC of that date; its local calendar
\* date (getFullYear, getMonth, getDate) is the day before west of UTC
LocalOfUtcMidnight(date) == IF tz < 0 THEN PrevDay(date) ELSE date

\* toISOString().split('T')[0] of local midnight of a date: the UTC date,
\* which is the day before east of UTC
IsoOfLocalMidnight(date) == IF tz > 0 THEN PrevDay(date) ELSE date

\* (local midnight of a) > (midnight UTC of b)
LocalMidnightAfterUtcMidnight(a, b) ==
    IF tz < 0 THEN DateLE(b, a) ELSE DateLT(b, a)

----------------------------------------------------------------------------
(* PaymentStorage (v2): duplicate prevention per payment period.           *)

CurrentTenant == tenants[session]

\* getCurrentPaymentPeriod: [y, m] for "YYYY-MM"; callers test
\* HasLeasePeriod first (null without a tenant or a lease start)
HasLeasePeriod == HasCurrentTenant /\ CurrentTenant.leaseStart # NoDate

PaymentPeriodAt(date) ==
    LET leaseStart == LocalOfUtcMidnight(CurrentTenant.leaseStart)
        monthsSinceStart == (date.y - leaseStart.y) * 12 + (date.m - leaseStart.m)
        periodStart == MakeDate(leaseStart.y, (leaseStart.m - 1) + monthsSinceStart,
                                leaseStart.d)
    IN [y |-> periodStart.y, m |-> periodStart.m]

getCurrentPaymentPeriod == PaymentPeriodAt(today)

\* dueDate.startsWith(period)
StartsWithPeriod(dueDate, period) == dueDate.y = period.y /\ dueDate.m = period.m

\* getNextDueDate
getNextDueDate ==
    IF HasCurrentTenant /\ CurrentTenant.leaseStart # NoDate
    THEN LET leaseStart == CurrentTenant.leaseStart
             leaseEnd == CurrentTenant.leaseEnd
             leaseDay == LocalOfUtcMidnight(leaseStart).d
             thisMonth == MakeDate(today.y, today.m - 1, leaseDay)
             nextDue == IF DateLE(thisMonth, today)
                        THEN MakeDate(today.y, today.m, leaseDay)
                        ELSE thisMonth
         IN IF DateLT(UtcToday, leaseStart) THEN leaseStart
            ELSE IF leaseEnd # NoDate /\ DateLE(leaseEnd, UtcToday) THEN leaseEnd
            ELSE IF leaseEnd # NoDate /\ LocalMidnightAfterUtcMidnight(nextDue, leaseEnd)
                 THEN leaseEnd
            ELSE IsoOfLocalMidnight(nextDue)
    ELSE IsoOfLocalMidnight(MakeDate(today.y, today.m, 1))

\* the verified/completed payments of the tenant counted for the period
PeriodPayments ==
    {i \in 1..Len(paymentsV2) :
        /\ paymentsV2[i].tenantId = session
        /\ paymentsV2[i].status \in {"verified", "completed"}
        /\ paymentsV2[i].dueDate # NoDate
        /\ StartsWithPeriod(paymentsV2[i].dueDate, getCurrentPaymentPeriod)}

\* Variant of canMakePayment whose last rule refuses when either type is
\* paid (|| for &&): C9_BillsAllowedAfterRent fails with it.
canMakePaymentEither(paymentType) ==
    IF ~HasCurrentTenant THEN FALSE
    ELSE IF ~HasLeasePeriod THEN FALSE
    ELSE LET rentPaid == \E i \in PeriodPayments : paymentsV2[i].paymentType = "Monthly Rent"
             billsPaid == \E i \in PeriodPayments : paymentsV2[i].paymentType = "Utility Bills"
         IN IF paymentType = "Monthly Rent" /\ rentPaid THEN FALSE
            ELSE IF paymentType = "Utility Bills" /\ billsPaid THEN FALSE
            ELSE IF rentPaid \/ billsPaid THEN FALSE
            ELSE TRUE

\* Variant of canMakePayment without the rule for a completed period:
\* C10_NothingAllowedWhenBothPaid fails with it.
canMakePaymentPerType(paymentType) ==
    IF ~HasCurrentTenant THEN FALSE
    ELSE IF ~HasLeasePeriod THEN FALSE
    ELSE LET rentPaid == \E i \in PeriodPayments : paymentsV2[i].paymentType = "Monthly Rent"
             billsPaid == \E i \in PeriodPayments : paymentsV2[i].paymentType = "Utility Bills"
         IN IF paymentType = "Monthly Rent" /\ rentPaid THEN FALSE
            ELSE IF paymentType = "Utility Bills" /\ billsPaid THEN FALSE
            ELSE TRUE

\* canMakePayment(paymentType).allowed
canMakePayment(paymentType) ==
    IF ~HasCurrentTenant THEN FALSE
    ELSE IF ~HasLeasePeriod THEN FALSE
    ELSE LET rentPaid == \E i \in PeriodPayments : paymentsV2[i].paymentType = "Monthly Rent"
             billsPaid == \E i \in PeriodPayments : paymentsV2[i].paymentType = "Utility Bills"
         IN IF paymentType = "Monthly Rent" /\ rentPaid THEN FALSE
            ELSE IF paymentType = "Utility Bills" /\ billsPaid THEN FALSE
            ELSE IF rentPaid /\ billsPaid THEN FALSE
            ELSE TRUE

\* createPayment for the session's tenant (the caller checks there is one):
\* an absent paymentType is 'Monthly Rent', an absent dueDate getNextDueDate()
createPayment(ps, paymentType, dueDate, status) ==
    Append(ps, [id |-> MaxId(ps) + 1,
                tenantId |-> session,
                status |-> status,
                paymentType |-> paymentType,
                dueDate |-> IF dueDate = NoDate THEN getNextDueDate ELSE dueDate,
                submittedDate |-> today])

\* v2 updatePaymentStatus: null (nothing written) for an unknown payment id
\* (adminNotes and the paidDate stamp are not modelled: nothing reads them)
updatePaymentStatusV2(ps, paymentId, status) ==
    LET i == IndexOfId(ps, paymentId)
    IN IF i = 0 THEN ps
       ELSE [ps EXCEPT ![i].status = status]

----------------------------------------------------------------------------
(* The admin pages: tenants (tenants-section.js), units                    *)
(* (unit-management-test.js) and the create-tenant form, each in a tab of  *)
(* its own on one localStorage.  A tenant is [tenantId, name, username,    *)
(* password, unitAssigned, rentAmount, status], TEN00n being the number n; *)
(* a unit is [status, tenantId, tenantName, price].  E-mail, phone, lease  *)
(* dates, deposit, notes, unit type, moveInDate and the activity log take  *)
(* no part in what the pages decide and are left out.                      *)

NoTenant == 0
NoUnit == ""
Pages == {"tenantsPage", "unitsPage", "createPage"}

\* the keys a page's storage listener reacts to
Listens ==
    [tenantsPage |-> {"tenants", "units", "rental_contracts"},
     unitsPage |-> {"units", "tenants"},
     createPage |-> {"tenants", "units", "rental_contracts", "rentarium_users"}]

\* Array.prototype.find / findIndex: the first index that passes, 0 for none
FirstIndex(s, Test(_)) ==
    LET hits == {i \in 1..Len(s) : Test(s[i])}
    IN IF hits = {} THEN 0 ELSE CHOOSE i \in hits : \A j \in hits : i <= j

\* generateTenantId: one more than the greatest number in use
generateTenantId(ts) ==
    IF Len(ts) = 0 THEN 1
    ELSE (CHOOSE n \in {ts[i].tenantId : i \in 1..Len(ts)} :
             \A i \in 1..Len(ts) : ts[i].tenantId <= n) + 1

\* the user names baseUsername + counter
NumberedNames == [ana |-> <<"ana1", "ana2", "ana3", "ana4">>,
                  ben |-> <<"ben1", "ben2", "ben3", "ben4">>]

WithCounter(baseUsername, counter) ==
    IF counter = 0 THEN baseUsername ELSE NumberedNames[baseUsername][counter]

\* the loop of handleTenantFormSubmit that makes the user name unique
UniqueUsername(ts, baseUsername) ==
    LET taken(n) == \E i \in 1..Len(ts) : ts[i].username = WithCounter(baseUsername, n)
        counter == CHOOSE n \in 0..Len(ts) : ~taken(n) /\ \A m \in 0..(n - 1) : taken(m)
    IN WithCounter(baseUsername, counter)

\* "free up the unit"
Vacated(unit) ==
    [unit EXCEPT !.status = "Vacant", !.tenantId = NoTenant, !.tenantName = ""]

Occupied(unit, tenantId, name, rentAmount) ==
    [unit EXCEPT !.status = "Occupied", !.tenantId = tenantId, !.tenantName = name,
                 !.price = rentAmount]

\* String.prototype.toLowerCase on the statuses of the model
toLowerCase(s) == IF s = "Active" THEN "active" ELSE s

ContractTerminated(contracts, username) ==
    username \in DOMAIN contracts /\ contracts[username].terminated

\* Variant of syncContractTerminations that marks the tenant terminated and
\* leaves the unit as it is: C27_TerminationPropagates fails with it.
syncContractTerminationsTenantOnly(ts, us, contracts) ==
    LET hit(t) == ContractTerminated(contracts, t.username) /\ t.status # "terminated"
    IN [tenants |-> [i \in 1..Len(ts) |->
                        IF hit(ts[i]) THEN [ts[i] EXCEPT !.status = "terminated"]
                        ELSE ts[i]],
        units |-> us,
        hasChanges |-> \E i \in 1..Len(ts) : hit(ts[i])]

\* syncContractTerminations on the page's tenants ts and units us
syncContractTerminations(ts, us, contracts) ==
    LET hit(t) == ContractTerminated(contracts, t.username) /\ t.status # "terminated"
    IN [tenants |-> [i \in 1..Len(ts) |->
                        IF hit(ts[i]) THEN [ts[i] EXCEPT !.status = "terminated"]
                        ELSE ts[i]],
        units |-> [u \in DOMAIN us |->
                      IF \E i \in 1..Len(ts) : hit(ts[i]) /\ ts[i].unitAssigned = u
                      THEN Vacated(us[u]) ELSE us[u]],
        hasChanges |-> \E i \in 1..Len(ts) : hit(ts[i])]

\* handleTenantFormSubmit with a tenantId in the form: the edit
EditedTenant(ts, us, id, name, unitAssigned, rentAmount, status) ==
    LET idx == FirstIndex(ts, LAMBDA t : t.tenantId = id)
        oldUnit == ts[idx].unitAssigned
        freed == IF oldUnit # NoUnit /\ oldUnit # unitAssigned /\ oldUnit \in DOMAIN us
                 THEN [us EXCEPT ![oldUnit] = Vacated(@)] ELSE us
    IN IF idx = 0 THEN [tenants |-> ts, units |-> us, written |-> FALSE]
       ELSE [tenants |-> [ts EXCEPT ![idx] = [@ EXCEPT !.name = name,
                                                        !.unitAssigned = unitAssigned,
                                                        !.rentAmount = rentAmount,
                                                        !.status = toLowerCase(status)]],
             units |-> IF unitAssigned \in DOMAIN freed
                       THEN [freed EXCEPT ![unitAssigned] =
                                             Occupied(@, id, name, rentAmount)]
                       ELSE freed,
             written |-> TRUE]

\* handleTenantFormSubmit with no tenantId in the form: a new tenant
AddedTenant(ts, us, name, baseUsername, unitAssigned, rentAmount, status) ==
    LET newId == generateTenantId(ts)
    IN [tenants |-> Append(ts, [tenantId |-> newId,
                                name |-> name,
                                username |-> UniqueUsername(ts, baseUsername),
                                password |-> "changeme123",
                                unitAssigned |-> unitAssigned,
                                rentAmount |-> rentAmount,
                                status |-> toLowerCase(status)]),
        units |-> IF unitAssigned \in DOMAIN us
                  THEN [us EXCEPT ![unitAssigned] = Occupied(@, newId, name, rentAmount)]
                  ELSE us,
        written |-> TRUE]

handleTenantFormSubmit(ts, us, id, name, baseUsername, unitAssigned, rentAmount, status) ==
    IF id # NoTenant
    THEN EditedTenant(ts, us, id, name, unitAssigned, rentAmount, status)
    ELSE AddedTenant(ts, us, name, baseUsername, unitAssigned, rentAmount, status)

\* deleteTenant: the tenants without tenantId, the unit of the first one freed
deleteTenant(ts, us, tenantId) ==
    LET idx == FirstIndex(ts, LAMBDA t : t.tenantId = tenantId)
        freeing == /\ idx # 0
                   /\ ts[idx].unitAssigned # NoUnit
                   /\ ts[idx].unitAssigned \in DOMAIN us
    IN [tenants |-> SelectSeq(ts, LAMBDA t : t.tenantId # tenantId),
        units |-> IF freeing THEN [us EXCEPT ![ts[idx].unitAssigned] = Vacated(@)] ELSE us,
        unitsWritten |-> freeing]

\* getTenantForUnit: the index of the first tenant assigned to the unit or
\* named by its tenantId, 0 for none
getTenantForUnit(us, ts, unitId) ==
    FirstIndex(ts, LAMBDA t : \/ t.unitAssigned = unitId
                              \/ (us[unitId].tenantId # NoTenant /\
                                  t.tenantId = us[unitId].tenantId))

\* syncUnitsWithTenants: every unit re-derived from its tenant
syncUnitsWithTenants(us, ts) ==
    [u \in DOMAIN us |->
        LET i == getTenantForUnit(us, ts, u)
        IN IF i # 0 /\ ts[i].status # "terminated"
           THEN [us[u] EXCEPT !.status = "Occupied",
                              !.tenantId = ts[i].tenantId,
                              !.tenantName = ts[i].name,
                              !.price = IF ts[i].rentAmount # 0 THEN ts[i].rentAmount ELSE @]
           ELSE IF us[u].tenantId # NoTenant
                THEN Vacated(us[u])
                ELSE us[u]]

\* handleFormSubmit of the units page: a new unit, or the unit being edited
\* with the fields of the form
handleFormSubmit(us, editingId, unitNumber, tenantName, rentAmount, formattedStatus) ==
    IF editingId # NoUnit
    THEN [us EXCEPT ![editingId] = [@ EXCEPT !.price = rentAmount,
                                             !.status = formattedStatus,
                                             !.tenantName = tenantName]]
    ELSE IF unitNumber \in DOMAIN us THEN us
         ELSE [u \in DOMAIN us \cup {unitNumber} |->
                  IF u = unitNumber
                  THEN [status |-> formattedStatus, tenantId |-> NoTenant,
                        tenantName |-> tenantName, price |-> rentAmount]
                  ELSE us[u]]

\* populateUnits: the options of the dropdown that are not disabled
populateUnits(us) == {u \in DOMAIN us : us[u].status = "Vacant"}

\* the submit handler of the create-tenant form, on the blobs it reads
createTenant(S, name, username, password, unitAssigned, rentAmount, status) ==
    IF \E i \in 1..Len(S.tenants) : S.tenants[i].username = username THEN S
    ELSE [S EXCEPT !.tenants = Append(@, [tenantId |-> generateTenantId(S.tenants),
                                          name |-> name,
                                          username |-> username,
                                          password |-> password,
                                          unitAssigned |-> unitAssigned,
                                          rentAmount |-> rentAmount,
                                          status |-> toLowerCase(status)]),
                   !.units = IF unitAssigned \in DOMAIN @
                             THEN [@ EXCEPT ![unitAssigned].status = "Occupied"]
                             ELSE @]

\* Variant of login that takes a tenant of any status: C28_LoginOnlyForActive
\* fails with it.
loginAnyStatus(S, stored, username, password) ==
    LET u == FirstIndex(S.rentarium_users,
                        LAMBDA x : x.username = username /\ x.password = password)
        t == FirstIndex(S.tenants,
                        LAMBDA x : x.username = username /\ x.password = password)
    IN IF u # 0 THEN [success |-> TRUE, session |-> S.rentarium_users[u].username]
       ELSE IF t # 0
            THEN [success |-> TRUE, session |-> S.tenants[t].username]
            ELSE [success |-> FALSE, session |-> stored]

\* login: the session it stores and the success it returns; a tenant is
\* looked up only when no user matches
login(S, stored, username, password) ==
    LET u == FirstIndex(S.rentarium_users,
                        LAMBDA x : x.username = username /\ x.password = password)
        t == FirstIndex(S.tenants,
                        LAMBDA x : x.username = username /\ x.password = password)
    IN IF u # 0 THEN [success |-> TRUE, session |-> S.rentarium_users[u].username]
       ELSE IF t # 0 /\ toLowerCase(S.tenants[t].status) = "active"
            THEN [success |-> TRUE, session |-> S.tenants[t].username]
            ELSE [success |-> FALSE, session |-> stored]

\* the sample data the pages store on first load, two of the five units
SampleTenants ==
    <<[tenantId |-> 1, name |-> "John Smith", username |-> "johnsmith",
       password |-> "password123", unitAssigned |-> "A-101", rentAmount |-> 15000,
       status |-> "active"]>>

SampleUnits ==
    [u \in {"A-101", "A-102"} |->
        IF u = "A-101"
        THEN [status |-> "Occupied", tenantId |-> 1, tenantName |-> "John Smith",
              price |-> 15000]
        ELSE [status |-> "Vacant", tenantId |-> NoTenant, tenantName |-> "",
              price |-> 17000]]

SampleUsers ==
    <<[username |-> "admin", password |-> "admin123"],
      [username |-> "user", password |-> "user123"]>>

NoContracts == [u \in {} |-> [terminated |-> FALSE]]

\* the three pages loaded on the sample data
PagesLoaded ==
    /\ localStorage = [tenants |-> SampleTenants, units |-> SampleUnits,
                       rental_contracts |-> NoContracts, rentarium_users |-> SampleUsers]
    /\ tenantsPage = [tenants |-> SampleTenants, units |-> SampleUnits,
                      formTenantId |-> NoTenant]
    /\ unitsPage = [units |-> SampleUnits, tenants |-> SampleTenants]
    /\ createPage = [options |-> populateUnits(SampleUnits)]
    /\ pending = [p \in Pages |-> FALSE]

----------------------------------------------------------------------------
(* Inputs the operations are called with, and the initial storage.         *)

CreateStatuses == {"pending", "verified"}
AdminStatuses == {"verified", "rejected", "completed"}
ClockStart == [y |-> 2024, m |-> 3, d |-> 20]

\* rent payments: 33.333 and 33.335 carry a third decimal
RentAmounts == {33333, 33335, 50000, 100000}
InstalmentAmounts == {33333, 33334, 50000}
LedgerRentAmounts == {50000}
BillAmounts == {157500, 250000}
\* 10.00 and 5.00 kWh
Consumptions == {1000, 500}

LedgerTenants ==
    [u \in Usernames |->
        [rentAmount |-> IF u = "t1" THEN 100000 ELSE 50000,
         leaseStart |-> [y |-> 2024, m |-> 1, d |-> 15],
         leaseEnd |-> [y |-> 2025, m |-> 1, d |-> 15]]]

DefaultRates == [electricity_rate |-> 11500, water_rate |-> 25000]

InitLedger ==
    /\ tenants = LedgerTenants
    /\ session \in Usernames \cup {NoSession}
    /\ today = ClockStart
    /\ tz = 0
    /\ utcShift = FALSE
    /\ tieUp = TRUE
    /\ payments = <<>>
    /\ bills = <<>>
    /\ rentStatuses = <<>>
    /\ rates = DefaultRates
    /\ paymentsV2 = <<>>
    /\ PagesLoaded

\* no ledger entry of S holds more than maxHistory applied payment ids
HistoryBounded(S, maxHistory) ==
    /\ \A i \in 1..Len(S.rentStatuses) : Len(S.rentStatuses[i].payments) <= maxHistory
    /\ \A i \in 1..Len(S.bills) : Len(S.bills[i].payments) <= maxHistory

SetStore(S, maxHistory) ==
    /\ HistoryBounded(S, maxHistory)
    /\ payments' = S.payments
    /\ bills' = S.bills
    /\ rentStatuses' = S.rentStatuses

----------------------------------------------------------------------------
(* The operations of EnhancedPaymentStorage as steps.                      *)

CreateRentPayment(maxId, monthArg, amount, status) ==
    /\ MaxId(payments) < maxId
    /\ SetStore(createRentPayment(Store, monthArg, amount, status), maxId)
    /\ UNCHANGED <<env, rates, paymentsV2>>

CreateBillPayment(maxId, billId, amount, status) ==
    /\ MaxId(payments) < maxId
    /\ SetStore(createBillPayment(Store, billId, amount, status), MaxHistory)
    /\ UNCHANGED <<env, rates, paymentsV2>>

UpdatePaymentStatus(maxHistory, paymentId, status) ==
    /\ SetStore(updatePaymentStatus(Store, paymentId, status), maxHistory)
    /\ UNCHANGED <<env, rates, paymentsV2>>

DeletePayment(paymentId) ==
    /\ SetStore(deletePayment(Store, paymentId), MaxHistory)
    /\ UNCHANGED <<env, rates, paymentsV2>>

GenerateBill(tenantId, month, electricity_kwh, water_cubic) ==
    /\ bills' = generateBill(bills, tenantId, month, electricity_kwh, water_cubic)
    /\ UNCHANGED <<env, payments, rentStatuses, rates, paymentsV2>>

\* the doubles of the next operation lie on the other side of their decimals
RoundingDirection(up) ==
    /\ tieUp # up
    /\ tieUp' = up
    /\ UNCHANGED <<tenants, session, today, tz, utcShift, payments, bills, rentStatuses,
                   rates, paymentsV2, pages>>

\* rent payments of the current month, verified, rejected and completed
NextRent ==
    \/ \E amount \in RentAmounts, status \in CreateStatuses :
          CreateRentPayment(MaxPayments, NoMonth, amount, status)
    \/ \E paymentId \in 1..(MaxPayments + 1), status \in AdminStatuses :
          UpdatePaymentStatus(MaxHistory, paymentId, status)
    \/ \E up \in BOOLEAN : RoundingDirection(up)

SpecRent == InitLedger /\ [][NextRent]_vars

\* rent paid in instalments: payments are only ever verified
NextInstalments ==
    \/ \E amount \in InstalmentAmounts, status \in CreateStatuses :
          CreateRentPayment(MaxInstalments, NoMonth, amount, status)
    \/ \E paymentId \in 1..(MaxInstalments + 1) :
          UpdatePaymentStatus(MaxInstalments, paymentId, "verified")

SpecInstalments == InitLedger /\ [][NextInstalments]_vars

\* every operation on payments, with bills generated and regenerated
NextLedger ==
    \/ \E amount \in LedgerRentAmounts, status \in CreateStatuses :
          CreateRentPayment(MaxPayments, NoMonth, amount, status)
    \/ \E billId \in 1..2, amount \in BillAmounts, status \in CreateStatuses :
          CreateBillPayment(MaxPayments, billId, amount, status)
    \/ \E paymentId \in 1..(MaxPayments + 1), status \in AdminStatuses :
          UpdatePaymentStatus(MaxHistory, paymentId, status)
    \/ \E paymentId \in 1..(MaxPayments + 1) : DeletePayment(paymentId)
    \/ \E electricity_kwh \in Consumptions :
          GenerateBill("t1", getCurrentMonth, electricity_kwh, 400)

SpecLedger == InitLedger /\ [][NextLedger]_vars

StatusTenants == {"t1", "t3"}
StatusAmounts == {50000}

\* getRentStatus called on its own
GetRentStatus(tenantId, month) ==
    /\ rentStatuses' = getRentStatus(rentStatuses, tenantId, month)
    /\ UNCHANGED <<env, payments, bills, rates, paymentsV2>>

\* updateRentStatus called on its own
UpdateRentStatus(tenantId, month, paidAmount, paymentId) ==
    /\ SetStore([Store EXCEPT !.rentStatuses =
                                 updateRentStatus(@, tenantId, month, paidAmount, paymentId)],
                MaxHistory)
    /\ UNCHANGED <<env, rates, paymentsV2>>

\* getTenantStats: reads the bill, and the rent status through getRentStatus
GetTenantStats(tenantId) ==
    /\ rentStatuses' = getRentStatus(rentStatuses, tenantId, getCurrentMonth)
    /\ UNCHANGED <<env, payments, bills, rates, paymentsV2>>

\* getNotifications: reads the bill, and the rent status through getRentStatus
GetNotifications(tenantId) ==
    /\ rentStatuses' = getRentStatus(rentStatuses, tenantId, getCurrentMonth)
    /\ UNCHANGED <<env, payments, bills, rates, paymentsV2>>

\* rent statuses read, created and updated for known and unknown tenants
NextRentStatus ==
    \/ \E tenantId \in StatusTenants : GetRentStatus(tenantId, getCurrentMonth + 1)
    \/ \E tenantId \in StatusTenants, paidAmount \in StatusAmounts :
          UpdateRentStatus(tenantId, getCurrentMonth + 1, paidAmount, MaxFewPayments + 1)
    \/ \E tenantId \in StatusTenants : GetTenantStats(tenantId)
    \/ \E tenantId \in StatusTenants : GetNotifications(tenantId)
    \/ \E amount \in StatusAmounts, status \in CreateStatuses :
          CreateRentPayment(MaxFewPayments, NoMonth, amount, status)
    \/ \E paymentId \in 1..(MaxFewPayments + 1), status \in {"verified", "rejected"} :
          UpdatePaymentStatus(MaxHistory, paymentId, status)

InitRentStatus == InitLedger /\ session = "t1"

SpecRentStatus == InitRentStatus /\ [][NextRentStatus]_vars

ApplyRentAmounts == {33333, 50000}
ApplyBillAmounts == {100000, 250000}

InitApply == InitLedger /\ session \in {"t1", NoSession}

\* rent and bill payments created, verified, completed and rejected, with
\* and without a tenant in the session
NextApply ==
    \/ GenerateBill("t1", getCurrentMonth, 500, 400)
    \/ \E amount \in ApplyRentAmounts, status \in CreateStatuses :
          CreateRentPayment(MaxPayments, NoMonth, amount, status)
    \/ \E billId \in 1..2, amount \in ApplyBillAmounts, status \in CreateStatuses :
          CreateBillPayment(MaxPayments, billId, amount, status)
    \/ \E paymentId \in 1..(MaxPayments + 1), status \in AdminStatuses :
          UpdatePaymentStatus(MaxHistory, paymentId, status)

SpecApply == InitApply /\ [][NextApply]_vars

RateChanges == {[electricity_rate |-> 12000],
                [electricity_rate |-> 11500, water_rate |-> 25000]}
BillClockDates == {[y |-> 2024, m |-> 3, d |-> 25]}
BillPaymentAmounts == {157500}

\* Variant of updateUtilityRates that also re-prices the stored bills at the
\* new rates: C16_RateChangeLeavesBills fails with it.
UpdateUtilityRatesRepricing(newRates) ==
    /\ rates' = updateUtilityRates(rates, newRates)
    /\ bills' = [k \in 1..Len(bills) |->
                    [bills[k] EXCEPT !.electricity_rate = rates'.electricity_rate,
                                     !.water_rate = rates'.water_rate]]
    /\ UNCHANGED <<env, payments, rentStatuses, paymentsV2>>

UpdateUtilityRates(newRates) ==
    /\ rates' = updateUtilityRates(rates, newRates)
    /\ UNCHANGED <<env, payments, bills, rentStatuses, paymentsV2>>

\* time passes in the ledger: a later date of the clock
LedgerTick(date) ==
    /\ DateLT(today, date)
    /\ today' = date
    /\ UNCHANGED <<tenants, session, tz, utcShift, tieUp, payments, bills, rentStatuses,
                   rates, paymentsV2, pages>>

\* bills generated and regenerated for two tenants on different days, under
\* changing rates, with bill payments
NextBills ==
    \/ \E tenantId \in Usernames, electricity_kwh \in Consumptions :
          GenerateBill(tenantId, getCurrentMonth, electricity_kwh, 400)
    \/ \E newRates \in RateChanges : UpdateUtilityRates(newRates)
    \/ \E billId \in 1..(Cardinality(Usernames) + 1), amount \in BillPaymentAmounts, status \in CreateStatuses :
          CreateBillPayment(MaxFewPayments, billId, amount, status)
    \/ \E paymentId \in 1..(MaxFewPayments + 1), status \in {"verified", "rejected"} :
          UpdatePaymentStatus(MaxHistory, paymentId, status)
    \/ \E date \in BillClockDates : LedgerTick(date)

InitBills == InitLedger /\ session = "t1"

SpecBills == InitBills /\ [][NextBills]_vars

\* 120.00 and 120.07 kWh, 0.29 kWh; 10.00 and 10.01 cubic metres
MeterKwh == {12000, 12007, 29}
MeterCubic == {1000, 1001}

\* bills generated from meter readings in whole hundredths, at rates in whole
\* cents, the products falling on either side of their decimals
NextBillAmounts ==
    \/ \E tenantId \in Usernames, electricity_kwh \in MeterKwh, water_cubic \in MeterCubic :
          GenerateBill(tenantId, getCurrentMonth, electricity_kwh, water_cubic)
    \/ \E newRates \in RateChanges : UpdateUtilityRates(newRates)
    \/ \E up \in BOOLEAN : RoundingDirection(up)

SpecBillAmounts == InitBills /\ [][NextBillAmounts]_vars

----------------------------------------------------------------------------
(* The operations of PaymentStorage (v2) as steps, and the clock.          *)

PaymentTypes == {"Monthly Rent", "Utility Bills", "Other"}
LeaseStarts == {[y |-> 2024, m |-> 1, d |-> 15], [y |-> 2024, m |-> 1, d |-> 31], NoDate}
ClockDates == {[y |-> 2024, m |-> 3, d |-> 10], [y |-> 2024, m |-> 3, d |-> 20],
               [y |-> 2024, m |-> 4, d |-> 10]}

InitV2 ==
    /\ \E leaseStart \in LeaseStarts :
          tenants = [u \in Usernames |->
                       [rentAmount |-> 100000,
                        leaseStart |-> leaseStart,
                        leaseEnd |-> [y |-> 2025, m |-> 1, d |-> 15]]]
    /\ session \in {"t1", NoSession}
    /\ today \in ClockDates
    /\ tz \in {-1, 0, 1}
    /\ utcShift = FALSE
    /\ tieUp = TRUE
    /\ payments = <<>>
    /\ bills = <<>>
    /\ rentStatuses = <<>>
    /\ rates = DefaultRates
    /\ paymentsV2 = <<>>
    /\ PagesLoaded

CreatePayment(paymentType, dueDate, status) ==
    /\ MaxId(paymentsV2) < MaxV2Payments
    /\ paymentsV2' = IF HasCurrentTenant
                     THEN createPayment(paymentsV2, paymentType, dueDate, status)
                     ELSE paymentsV2
    /\ UNCHANGED <<env, payments, bills, rentStatuses, rates>>

UpdatePaymentStatusV2(paymentId, status) ==
    /\ paymentsV2' = updatePaymentStatusV2(paymentsV2, paymentId, status)
    /\ UNCHANGED <<env, payments, bills, rentStatuses, rates>>

\* time passes: a later date of the clock
Tick(date, shift) ==
    /\ DateLT(today, date)
    /\ tz = 0 => ~shift
    /\ today' = date
    /\ utcShift' = shift
    /\ UNCHANGED <<tenants, session, tz, tieUp, payments, bills, rentStatuses, rates,
                   paymentsV2, pages>>

NextV2 ==
    \/ \E paymentType \in PaymentTypes, status \in CreateStatuses :
          CreatePayment(paymentType, NoDate, status)
    \/ \E paymentId \in 1..(MaxV2Payments + 1), status \in AdminStatuses :
          UpdatePaymentStatusV2(paymentId, status)
    \/ \E date \in ClockDates : Tick(date, FALSE)

SpecV2 == InitV2 /\ [][NextV2]_vars

----------------------------------------------------------------------------
(* The handlers of the admin pages as steps.  A handler runs to its end    *)
(* before another starts; the storage events of its writes are queued for  *)
(* the other pages and handled later, one page at a time.                  *)

\* the queue after `writer` has stored S: a page that listens to a key whose
\* value changed gets an event
Notified(writer, S, queue) ==
    [p \in Pages |->
        IF p # writer /\ \E k \in Listens[p] : S[k] # localStorage[k] THEN TRUE
        ELSE queue[p]]

\* what syncContractTerminations leaves in the page and in storage
SyncContractTerminations(ts, us, queue) ==
    LET r == syncContractTerminations(ts, us, localStorage.rental_contracts)
        S == IF r.hasChanges
             THEN [localStorage EXCEPT !.tenants = r.tenants, !.units = r.units]
             ELSE localStorage
    IN /\ tenantsPage' = [tenantsPage EXCEPT !.tenants = r.tenants, !.units = r.units]
       /\ localStorage' = S
       /\ pending' = Notified("tenantsPage", S, queue)

\* the 3-second timer of startAutoSync
SyncTimer ==
    /\ SyncContractTerminations(tenantsPage.tenants, tenantsPage.units, pending)
    /\ UNCHANGED <<unitsPage, createPage, session, ledger>>

\* the storage listener of the tenants page: reload, then sync
TenantsStorageEvent ==
    /\ pending.tenantsPage
    /\ SyncContractTerminations(localStorage.tenants, localStorage.units,
                                [pending EXCEPT !.tenantsPage = FALSE])
    /\ UNCHANGED <<unitsPage, createPage, session, ledger>>

\* editTenant: the form is filled with the tenant's id
EditTenant(tenantId) ==
    /\ \E i \in 1..Len(tenantsPage.tenants) :
          /\ tenantsPage.tenants[i].tenantId = tenantId
          /\ tenantsPage.tenants[FirstIndex(tenantsPage.tenants,
                                            LAMBDA t : t.tenantId = tenantId)].status
                # "terminated"
    /\ tenantsPage' = [tenantsPage EXCEPT !.formTenantId = tenantId]
    /\ UNCHANGED <<localStorage, unitsPage, createPage, pending, session, ledger>>

\* the tenant form submitted with a unit of the dropdown
HandleTenantFormSubmit(maxTenants, name, baseUsername, unitAssigned, rentAmount, status) ==
    /\ tenantsPage.formTenantId = NoTenant =>
          generateTenantId(tenantsPage.tenants) <= maxTenants
    /\ unitAssigned \in DOMAIN tenantsPage.units
    /\ LET r == handleTenantFormSubmit(tenantsPage.tenants, tenantsPage.units,
                                       tenantsPage.formTenantId, name, baseUsername,
                                       unitAssigned, rentAmount, status)
           S == IF r.written
                THEN [localStorage EXCEPT !.tenants = r.tenants, !.units = r.units]
                ELSE localStorage
       IN /\ tenantsPage' = [tenantsPage EXCEPT !.tenants = r.tenants, !.units = r.units]
          /\ localStorage' = S
          /\ pending' = Notified("tenantsPage", S, pending)
    /\ UNCHANGED <<unitsPage, createPage, session, ledger>>

\* the Delete button of a tenant the page lists as not terminated
DeleteTenant(tenantId) ==
    /\ \E i \in 1..Len(tenantsPage.tenants) :
          /\ tenantsPage.tenants[i].tenantId = tenantId
          /\ tenantsPage.tenants[i].status # "terminated"
    /\ LET r == deleteTenant(tenantsPage.tenants, tenantsPage.units, tenantId)
           S == [localStorage EXCEPT !.tenants = r.tenants,
                                     !.units = IF r.unitsWritten THEN r.units ELSE @]
       IN /\ tenantsPage' = [tenantsPage EXCEPT !.tenants = r.tenants, !.units = r.units]
          /\ localStorage' = S
          /\ pending' = Notified("tenantsPage", S, pending)
    /\ UNCHANGED <<unitsPage, createPage, session, ledger>>

\* what the units page does at load and on a storage event: read both
\* blobs, syncUnitsWithTenants, store the units
ReloadUnits ==
    LET us == syncUnitsWithTenants(localStorage.units, localStorage.tenants)
        S == [localStorage EXCEPT !.units = us]
    IN /\ unitsPage' = [units |-> us, tenants |-> localStorage.tenants]
       /\ localStorage' = S
       /\ pending' = Notified("unitsPage", S, [pending EXCEPT !.unitsPage = FALSE])

\* init of the units page: the tab is loaded again
UnitsPageLoad ==
    /\ ReloadUnits
    /\ UNCHANGED <<tenantsPage, createPage, session, ledger>>

\* the storage listener of the units page
UnitsStorageEvent ==
    /\ pending.unitsPage
    /\ ReloadUnits
    /\ UNCHANGED <<tenantsPage, createPage, session, ledger>>

\* the unit form submitted: editUnit and its form when editingId is a unit
\* of the page, the Add Unit form otherwise
HandleFormSubmit(editingId, unitNumber, tenantName, rentAmount, formattedStatus) ==
    /\ editingId # NoUnit => editingId \in DOMAIN unitsPage.units /\ unitNumber = editingId
    /\ LET us == handleFormSubmit(unitsPage.units, editingId, unitNumber, tenantName,
                                  rentAmount, formattedStatus)
           S == [localStorage EXCEPT !.units = IF us # unitsPage.units THEN us ELSE @]
       IN /\ unitsPage' = [unitsPage EXCEPT !.units = us]
          /\ localStorage' = S
          /\ pending' = Notified("unitsPage", S, pending)
    /\ UNCHANGED <<tenantsPage, createPage, session, ledger>>

\* the create-tenant form submitted with a unit its dropdown offers; its own
\* storage event repopulates the dropdown
CreateTenant(maxTenants, name, username, password, unitAssigned, rentAmount, status) ==
    /\ generateTenantId(localStorage.tenants) <= maxTenants
    /\ unitAssigned \in createPage.options
    /\ LET S == createTenant(localStorage, name, username, password, unitAssigned,
                             rentAmount, status)
       IN /\ localStorage' = S
          /\ createPage' = IF S # localStorage THEN [options |-> populateUnits(S.units)]
                           ELSE createPage
          /\ pending' = Notified("createPage", S, pending)
    /\ UNCHANGED <<tenantsPage, unitsPage, session, ledger>>

\* the storage listener of the create-tenant form
CreatePageStorageEvent ==
    /\ pending.createPage
    /\ createPage' = [options |-> populateUnits(localStorage.units)]
    /\ pending' = [pending EXCEPT !.createPage = FALSE]
    /\ UNCHANGED <<localStorage, tenantsPage, unitsPage, session, ledger>>

\* the contract page marks the contract of username terminated
TerminateContract(username) ==
    /\ ~ContractTerminated(localStorage.rental_contracts, username)
    /\ LET S == [localStorage EXCEPT !.rental_contracts =
                    [u \in DOMAIN @ \cup {username} |-> [terminated |-> TRUE]]]
       IN /\ localStorage' = S
          /\ pending' = Notified("contractPage", S, pending)
    /\ UNCHANGED <<tenantsPage, unitsPage, createPage, session, ledger>>

\* login called with the fields of the login form
Login(username, password) ==
    /\ session' = login(localStorage, session, username, password).session
    /\ UNCHANGED <<pages, ledger>>

TenantNames == {"Ana Cruz"}
BaseUsernames == {"ana", "ben"}
FormStatuses == {"active", "pending"}
ContractUsernames == {"johnsmith", "ana"}

InitPages == InitLedger /\ session = NoSession

\* tenants created in the create-tenant form, contracts terminated, the
\* units page loaded and notified
NextUnitsSync ==
    \/ SyncTimer
    \/ TenantsStorageEvent
    \/ UnitsPageLoad
    \/ UnitsStorageEvent
    \/ \E name \in TenantNames, username \in BaseUsernames,
          unitAssigned \in DOMAIN SampleUnits, status \in FormStatuses :
          CreateTenant(MaxTenants, name, username, "secret123", unitAssigned, 15000, status)
    \/ CreatePageStorageEvent
    \/ \E username \in ContractUsernames : TerminateContract(username)

SpecUnitsSync == InitPages /\ [][NextUnitsSync]_vars

LoginUsernames == {"admin", "johnsmith", "ana", "nobody"}
LoginPasswords == {"admin123", "password123", "secret123"}

\* tenants created with a status in the create-tenant form, contracts
\* terminated, and the login form submitted
NextLogin ==
    \/ \E username \in {"ana", "admin"}, password \in {"secret123", "admin123"},
          unitAssigned \in DOMAIN SampleUnits, status \in {"Active", "pending"} :
          CreateTenant(MaxTenants, "Ana Cruz", username, password, unitAssigned, 15000,
                       status)
    \/ CreatePageStorageEvent
    \/ \E username \in ContractUsernames : TerminateContract(username)
    \/ TenantsStorageEvent
    \/ \E username \in LoginUsernames, password \in LoginPasswords :
          Login(username, password)

SpecLogin == InitPages /\ [][NextLogin]_vars

\* the tenants page and the units page in two tabs: units added and edited
\* on the units page, the tenant edited and its contract terminated on the
\* tenants page, each page told of the other's writes by its storage
\* listener
NextTabs ==
    \/ HandleFormSubmit(NoUnit, "A-103", "", 16000, "Vacant")
    \/ HandleFormSubmit("A-102", "A-102", "", 16000, "Maintenance")
    \/ UnitsStorageEvent
    \/ TenantsStorageEvent
    \/ SyncTimer
    \/ TerminateContract("johnsmith")
    \/ \E tenantId \in 1..MaxTenants : EditTenant(tenantId)
    \/ \E unitAssigned \in DOMAIN SampleUnits :
          HandleTenantFormSubmit(Len(SampleTenants), "John Smith", "johnsmith",
                                 unitAssigned, 15000, "active")

SpecTabs == InitPages /\ [][NextTabs]_vars

\* tenants created in the create-tenant form and on the tenants page,
\* edited, deleted, and their contracts terminated
NextTenants ==
    \/ \E username \in BaseUsernames, unitAssigned \in DOMAIN SampleUnits :
          CreateTenant(MaxTenants, "Ana Cruz", username, "secret123", unitAssigned, 15000,
                       "active")
    \/ CreatePageStorageEvent
    \/ \E tenantId \in 1..MaxTenants : EditTenant(tenantId)
    \/ \E unitAssigned \in DOMAIN SampleUnits, status \in FormStatuses :
          HandleTenantFormSubmit(MaxTenants, "Ana Cruz", "ana", unitAssigned, 15000, status)
    \/ \E tenantId \in 1..MaxTenants : DeleteTenant(tenantId)
    \/ SyncTimer
    \/ TenantsStorageEvent
    \/ \E username \in ContractUsernames : TerminateContract(username)

SpecTenants == InitPages /\ [][NextTenants]_vars

\* the tenants page open, with its timer and its storage listener, while
\* contracts are terminated and tenants edited, created and deleted
NextTermination ==
    \/ SyncTimer
    \/ TenantsStorageEvent
    \/ \E username \in ContractUsernames : TerminateContract(username)
    \/ \E tenantId \in 1..MaxTenants : EditTenant(tenantId)
    \/ \E name \in TenantNames, unitAssigned \in DOMAIN SampleUnits, status \in FormStatuses :
          HandleTenantFormSubmit(MaxTenants, name, "ana", unitAssigned, 15000, status)
    \/ \E tenantId \in 1..MaxTenants : DeleteTenant(tenantId)

\* the timer fires every 3 seconds while the page is open, and a queued
\* storage event is delivered
SpecTermination ==
    /\ InitPages
    /\ [][NextTermination]_vars
    /\ WF_vars(SyncTimer)
    /\ WF_vars(TenantsStorageEvent)

----------------------------------------------------------------------------
(* Claims about EnhancedPaymentStorage.                                    *)

IsPaid(p) == p.status \in {"verified", "completed"}

RECURSIVE SumAmounts(_, _)
SumAmounts(ps, I) ==
    IF I = {} THEN 0
    ELSE LET i == CHOOSE j \in I : TRUE
         IN ps[i].amount + SumAmounts(ps, I \ {i})

RentPaymentsOf(tenantId, month) ==
    {i \in 1..Len(payments) :
        /\ payments[i].payment_type = "rent"
        /\ payments[i].tenantId = tenantId
        /\ payments[i].month = month}

BillPaymentsOf(billId) ==
    {i \in 1..Len(payments) :
        payments[i].payment_type = "bill" /\ payments[i].billId = billId}

Min(a, b) == IF a <= b THEN a ELSE b

\* C1: every RentStatus.paid_amount is the sum of the amounts of the stored
\* verified or completed rent payments of its tenant and month, and every
\* Bill.paid_amount is that sum over its bill payments, capped at total_amount.
C1_LedgerDerivedFromPayments ==
    /\ \A k \in 1..Len(rentStatuses) :
          rentStatuses[k].paid_amount =
              SumAmounts(payments,
                         {i \in RentPaymentsOf(rentStatuses[k].tenantId, rentStatuses[k].month) :
                             IsPaid(payments[i])})
    /\ \A k \in 1..Len(bills) :
          bills[k].paid_amount =
              Min(SumAmounts(payments, {i \in BillPaymentsOf(bills[k].id) : IsPaid(payments[i])}),
                  bills[k].total_amount)

\* C2: every stored Bill has paid_amount <= total_amount, whatever was paid
\* and however the bill was regenerated.
C2_BillPaidWithinTotal ==
    \A k \in 1..Len(bills) : bills[k].paid_amount <= bills[k].total_amount

\* updatePaymentStatus(id, 'verified') followed by updatePaymentStatus(id, 'rejected')
VerifyThenReject(S, paymentId) ==
    updatePaymentStatus(updatePaymentStatus(S, paymentId, "verified"), paymentId, "rejected")

BillPaidIn(S, billId) == S.bills[IndexOfId(S.bills, billId)].paid_amount

RentPaidIn(S, tenantId, month) ==
    S.rentStatuses[IndexOfKey(S.rentStatuses, tenantId, month)].paid_amount

\* C3: for every stored bill payment, verifying and then rejecting it leaves
\* its Bill's paid_amount as it was, also when done twice in a row.
C3_BillReversalExact ==
    \A i \in 1..Len(payments) :
        payments[i].payment_type = "bill" =>
            LET once == VerifyThenReject(Store, payments[i].id)
                twice == VerifyThenReject(once, payments[i].id)
            IN /\ BillPaidIn(once, payments[i].billId) = BillPaidIn(Store, payments[i].billId)
               /\ BillPaidIn(twice, payments[i].billId) = BillPaidIn(Store, payments[i].billId)

RentReversalExact(p) ==
    LET once == VerifyThenReject(Store, p.id)
        twice == VerifyThenReject(once, p.id)
    IN /\ RentPaidIn(once, p.tenantId, p.month) = RentPaidIn(Store, p.tenantId, p.month)
       /\ RentPaidIn(twice, p.tenantId, p.month) = RentPaidIn(Store, p.tenantId, p.month)

\* an amount with a third decimal of 5: half way between two cents
IsHalfCent(amount) == amount % 10 = 5

\* C4 as stated: for every stored rent payment, of any amount, verifying and
\* then rejecting it leaves its RentStatus's paid_amount as it was, also when
\* done twice in a row.
C4_RentReversalExactAnyAmount ==
    \A i \in 1..Len(payments) :
        payments[i].payment_type = "rent" => RentReversalExact(payments[i])

\* C4 amended: for every stored rent payment whose amount is not half way
\* between two cents (every amount of at most two decimals, overpayments
\* included), verifying and then rejecting it leaves its RentStatus's
\* paid_amount as it was, also when done twice in a row.
C4_RentReversalExact ==
    \A i \in 1..Len(payments) :
        (payments[i].payment_type = "rent" /\ ~IsHalfCent(payments[i].amount)) =>
            RentReversalExact(payments[i])

\* a rent payment that updatePaymentStatus verified and then rejected, with
\* the rent status back at what it was before
C4_Witness ==
    \E i \in 1..Len(payments), k \in 1..Len(rentStatuses) :
        /\ payments[i].payment_type = "rent"
        /\ ~IsHalfCent(payments[i].amount)
        /\ payments[i].status = "rejected"
        /\ payments[i].paidDate
        /\ rentStatuses[k].tenantId = payments[i].tenantId
        /\ rentStatuses[k].month = payments[i].month
        /\ rentStatuses[k].payments = <<payments[i].id, payments[i].id>>
        /\ rentStatuses[k].paid_amount = 0

NoDuplicates(seq) == \A i, j \in 1..Len(seq) : seq[i] = seq[j] => i = j

\* the rent payments applied to a rent status, when each id of its history
\* was applied once and is a stored verified rent payment of its tenant and
\* month; {} otherwise
AppliedOnce(s) ==
    LET I == {i \in RentPaymentsOf(s.tenantId, s.month) :
                 \E h \in 1..Len(s.payments) : s.payments[h] = payments[i].id}
    IN IF /\ NoDuplicates(s.payments)
          /\ Cardinality(I) = Len(s.payments)
          /\ \A i \in I : payments[i].status = "verified"
       THEN I ELSE {}

SumsToRequired(s) ==
    /\ AppliedOnce(s) # {}
    /\ SumAmounts(payments, AppliedOnce(s)) = s.required_amount

\* C5 as stated: a RentStatus whose rent payments, each verified once, sum
\* to exactly its required_amount has status 'paid' and remaining_amount 0.
C5_PaidWhenSumIsRequiredAnyAmount ==
    \A k \in 1..Len(rentStatuses) :
        SumsToRequired(rentStatuses[k]) =>
            rentStatuses[k].status = "paid" /\ rentStatuses[k].remaining_amount = 0

WholeCents(s) == \A i \in AppliedOnce(s) : payments[i].amount % 10 = 0

\* C5 amended: a RentStatus whose rent payments, each an amount in whole
\* cents and each verified once, sum to exactly its required_amount has
\* status 'paid' and remaining_amount 0.
C5_PaidWhenSumIsRequired ==
    \A k \in 1..Len(rentStatuses) :
        (SumsToRequired(rentStatuses[k]) /\ WholeCents(rentStatuses[k])) =>
            rentStatuses[k].status = "paid" /\ rentStatuses[k].remaining_amount = 0

\* two whole-cent instalments that sum to the rent, both verified
C5_Witness ==
    \E k \in 1..Len(rentStatuses) :
        /\ SumsToRequired(rentStatuses[k])
        /\ WholeCents(rentStatuses[k])
        /\ Len(rentStatuses[k].payments) = 2
        /\ rentStatuses[k].status = "paid"

----------------------------------------------------------------------------
(* Claims about the duplicate-preventing PaymentStorage.                   *)

\* the payment period a record is counted for: the YYYY-MM its dueDate starts with
PeriodOf(p) == [y |-> p.dueDate.y, m |-> p.dueDate.m]

PaidFor(tenantId, paymentType, period) ==
    {i \in 1..Len(paymentsV2) :
        /\ paymentsV2[i].tenantId = tenantId
        /\ paymentsV2[i].paymentType = paymentType
        /\ IsPaid(paymentsV2[i])
        /\ paymentsV2[i].dueDate # NoDate
        /\ PeriodOf(paymentsV2[i]) = period}

\* C6: each tenant has, for each of 'Monthly Rent' and 'Utility Bills' and
\* each payment period, at most one verified or completed payment.
C6_OnePaidPerTypeAndPeriod ==
    \A i, j \in 1..Len(paymentsV2) :
        (/\ paymentsV2[i].paymentType \in {"Monthly Rent", "Utility Bills"}
         /\ paymentsV2[i].dueDate # NoDate
         /\ j \in PaidFor(paymentsV2[i].tenantId, paymentsV2[i].paymentType,
                          PeriodOf(paymentsV2[i]))
         /\ IsPaid(paymentsV2[i]))
        => i = j

\* C7: a step that stores a new payment record is a step in which
\* canMakePayment allowed the record's payment type for the session tenant.
C7_CreationOnlyWhenAllowed ==
    [][Len(paymentsV2') > Len(paymentsV2) =>
          canMakePayment(paymentsV2'[Len(paymentsV2')].paymentType)]_vars

\* C8: while the session tenant (with a lease start) is in the payment period
\* in which it created a 'Monthly Rent' payment with the default due date,
\* and that payment is verified or completed, canMakePayment('Monthly Rent')
\* is refused.
C8_RentRefusedOncePaid ==
    \A i \in 1..Len(paymentsV2) :
        (/\ HasCurrentTenant
         /\ HasLeasePeriod
         /\ paymentsV2[i].tenantId = session
         /\ paymentsV2[i].paymentType = "Monthly Rent"
         /\ IsPaid(paymentsV2[i])
         /\ PaymentPeriodAt(paymentsV2[i].submittedDate) = getCurrentPaymentPeriod)
        => ~canMakePayment("Monthly Rent")

HasPeriod == HasCurrentTenant /\ HasLeasePeriod

RentCounted == HasPeriod /\ PaidFor(session, "Monthly Rent", getCurrentPaymentPeriod) # {}

BillsCounted == HasPeriod /\ PaidFor(session, "Utility Bills", getCurrentPaymentPeriod) # {}

\* C9: when the session tenant has a verified or completed 'Monthly Rent'
\* payment counted for the current period and no such 'Utility Bills'
\* payment, canMakePayment('Utility Bills') is allowed.
C9_BillsAllowedAfterRent ==
    (RentCounted /\ ~BillsCounted) => canMakePayment("Utility Bills")

\* the rent of the current period is verified or completed, the bills are not
C9_Witness ==
    /\ RentCounted
    /\ ~BillsCounted
    /\ canMakePayment("Utility Bills")
    /\ ~canMakePayment("Monthly Rent")

\* C10: when both a 'Monthly Rent' and a 'Utility Bills' payment are verified
\* or completed for the current period, canMakePayment refuses every payment
\* type, the other types included.
C10_NothingAllowedWhenBothPaid ==
    (RentCounted /\ BillsCounted) => \A paymentType \in PaymentTypes : ~canMakePayment(paymentType)

\* both payments of the current period are verified or completed
C10_Witness ==
    /\ RentCounted
    /\ BillsCounted
    /\ ~canMakePayment("Other")

----------------------------------------------------------------------------
(* Further claims about EnhancedPaymentStorage.                            *)

\* the stored rent status of (tenantId, month) says 'paid'
RentIsPaid(tenantId, month) ==
    \E k \in 1..Len(rentStatuses) :
        /\ rentStatuses[k].tenantId = tenantId
        /\ rentStatuses[k].month = month
        /\ rentStatuses[k].status = "paid"

\* C11: a step never stores a new rent payment for a (tenant, month) whose
\* RentStatus had status 'paid' before the step.
C11_NoRentPaymentOncePaid ==
    [][(/\ Len(payments') > Len(payments)
        /\ payments'[Len(payments')].payment_type = "rent")
       => ~RentIsPaid(payments'[Len(payments')].tenantId, payments'[Len(payments')].month)]_vars

WaterReadings == {400, 800}

\* C12: generateBill for the (tenant, month) of a stored Bill replaces that
\* record in place: id, paid_amount, status, createdDate and payments stay,
\* consumption, rate snapshot, amounts and total_amount are those of the new
\* inputs and the current rates, and every other stored Bill is unchanged.
C12_RegenerationInPlace ==
    \A k \in 1..Len(bills), electricity_kwh \in Consumptions, water_cubic \in WaterReadings :
        LET bs == generateBill(bills, bills[k].tenantId, bills[k].month,
                               electricity_kwh, water_cubic)
            electricity_amount == ToFixed2(electricity_kwh * rates.electricity_rate, 100)
            water_amount == ToFixed2(water_cubic * rates.water_rate, 100)
        IN /\ Len(bs) = Len(bills)
           /\ \A j \in 1..Len(bills) : j # k => bs[j] = bills[j]
           /\ bs[k].id = bills[k].id
           /\ bs[k].tenantId = bills[k].tenantId
           /\ bs[k].month = bills[k].month
           /\ bs[k].paid_amount = bills[k].paid_amount
           /\ bs[k].status = bills[k].status
           /\ bs[k].createdDate = bills[k].createdDate
           /\ bs[k].payments = bills[k].payments
           /\ bs[k].electricity_kwh = electricity_kwh
           /\ bs[k].water_cubic = water_cubic
           /\ bs[k].electricity_rate = rates.electricity_rate
           /\ bs[k].water_rate = rates.water_rate
           /\ bs[k].electricity_amount = electricity_amount
           /\ bs[k].water_amount = water_amount
           /\ bs[k].total_amount = Round2(electricity_amount + water_amount)

\* two bills, one of them regenerated to a lower total on a later day, after
\* a payment was applied to it
C12_Witness ==
    /\ Len(bills) = 2
    /\ \E k \in 1..Len(bills) :
          /\ bills[k].payments # <<>>
          /\ bills[k].status = "partial"
          /\ bills[k].paid_amount >= bills[k].total_amount
          /\ bills[k].createdDate # today

\* C13: every stored Bill has status 'paid' if and only if
\* paid_amount >= total_amount.
C13_PaidIffCovered ==
    \A k \in 1..Len(bills) :
        bills[k].status = "paid" <=> bills[k].paid_amount >= bills[k].total_amount

\* C14: the stored bills hold at most one Bill per (tenantId, month).
C14_OneBillPerTenantAndMonth ==
    \A i, j \in 1..Len(bills) :
        (bills[i].tenantId = bills[j].tenantId /\ bills[i].month = bills[j].month) => i = j

\* two bills, one of them paid in full and then regenerated to a higher total
C14_Witness ==
    /\ Len(bills) = 2
    /\ \E k \in 1..Len(bills) :
          /\ bills[k].payments # <<>>
          /\ bills[k].status = "paid"
          /\ bills[k].paid_amount < bills[k].total_amount

\* C16: a step that changes the stored rate table leaves every stored Bill
\* as it was.
C16_RateChangeLeavesBills ==
    [][rates' # rates => bills' = bills]_vars

\* a stored bill whose rate snapshot is no longer the stored rate
C16_Witness ==
    \E k \in 1..Len(bills) : bills[k].electricity_rate # rates.electricity_rate

\* C15: the stored rent statuses hold at most one RentStatus per
\* (tenantId, month).
C15_OneRentStatusPerTenantAndMonth ==
    \A i, j \in 1..Len(rentStatuses) :
        (/\ rentStatuses[i].tenantId = rentStatuses[j].tenantId
         /\ rentStatuses[i].month = rentStatuses[j].month) => i = j

\* rent statuses of several keys, one created for a tenant that is not
\* stored, one that payments were applied to
C15_Witness ==
    /\ Len(rentStatuses) >= 3
    /\ \E k \in 1..Len(rentStatuses) : rentStatuses[k].tenantId \notin DOMAIN tenants
    /\ \E k \in 1..Len(rentStatuses) : Len(rentStatuses[k].payments) >= 2

\* identifiers an operation may be called with, stored or not
CallIds == 1..(MaxPayments + 1)

\* C19: createBillPayment for a billId that matches no Bill, createRentPayment
\* and createBillPayment without a tenant of the session, updatePaymentStatus
\* for an unknown payment id and updateBillStatus for an unknown bill id
\* leave the stored payments, bills and rent statuses as they were.
C19_FailedOperationsWriteNothing ==
    \A id \in CallIds, amount \in ApplyBillAmounts :
        /\ IndexOfId(bills, id) = 0 =>
              /\ \A status \in CreateStatuses :
                    createBillPayment(Store, id, amount, status) = Store
              /\ \A paymentId \in CallIds :
                    updateBillStatus(bills, id, amount, paymentId) = bills
        /\ ~HasCurrentTenant =>
              \A status \in CreateStatuses :
                  /\ createRentPayment(Store, NoMonth, amount, status) = Store
                  /\ createBillPayment(Store, id, amount, status) = Store
        /\ IndexOfId(payments, id) = 0 =>
              \A status \in Statuses : updatePaymentStatus(Store, id, status) = Store

\* a tenant in the session, a stored bill with a payment applied to it, and
\* identifiers that match no bill and no payment
C19_Witness ==
    /\ HasCurrentTenant
    /\ \E k \in 1..Len(bills) : bills[k].payments # <<>>
    /\ \E id \in CallIds : IndexOfId(bills, id) = 0
    /\ \E id \in CallIds : IndexOfId(payments, id) = 0 /\ payments # <<>>

\* updatePaymentStatus(p.id, status) applies exactly p.amount to p's target
\* and stamps paidDate, leaving every other ledger entry alone
AppliesAmount(p, status) ==
    LET T == updatePaymentStatus(Store, p.id, status)
        RentUpdated ==
            LET k == IndexOfKey(rentStatuses, p.tenantId, p.month)
            IN /\ k # 0
               /\ Len(T.rentStatuses) = Len(rentStatuses)
               /\ T.rentStatuses[k].paid_amount = rentStatuses[k].paid_amount + p.amount
               /\ T.rentStatuses[k].payments = Append(rentStatuses[k].payments, p.id)
               /\ \A j \in 1..Len(rentStatuses) : j # k => T.rentStatuses[j] = rentStatuses[j]
               /\ T.bills = bills
        BillUpdated ==
            LET k == IndexOfId(bills, p.billId)
            IN /\ k # 0
               /\ Len(T.bills) = Len(bills)
               /\ T.bills[k].paid_amount =
                      Min(bills[k].paid_amount + p.amount, bills[k].total_amount)
               /\ T.bills[k].payments = Append(bills[k].payments, p.id)
               /\ \A j \in 1..Len(bills) : j # k => T.bills[j] = bills[j]
               /\ T.rentStatuses = rentStatuses
    IN /\ IF p.payment_type = "rent" THEN RentUpdated ELSE BillUpdated
       /\ Len(T.payments) = Len(payments)
       /\ \A i \in 1..Len(payments) :
             IF payments[i].id = p.id
             THEN T.payments[i] = [p EXCEPT !.status = status, !.paidDate = TRUE]
             ELSE T.payments[i] = payments[i]

\* C20 as stated: moving any pending payment to 'verified' or 'completed'
\* adds exactly its amount to the paid_amount of its target (a bill's up to
\* its total), appends its id to the target's payments, sets its paidDate
\* and changes no other ledger entry.
C20_VerificationAppliesAnyAmount ==
    \A i \in 1..Len(payments), status \in {"verified", "completed"} :
        payments[i].status = "pending" => AppliesAmount(payments[i], status)

\* C20 amended: the same for every pending payment of an amount in whole
\* cents.
C20_VerificationAppliesAmount ==
    \A i \in 1..Len(payments), status \in {"verified", "completed"} :
        (payments[i].status = "pending" /\ payments[i].amount % 10 = 0) =>
            AppliesAmount(payments[i], status)

\* a rent payment and a bill payment that updatePaymentStatus moved from
\* pending to verified or completed, each applied once to its target
C20_Witness ==
    \E i, j \in 1..Len(payments) :
        /\ payments[i].payment_type = "rent"
        /\ payments[j].payment_type = "bill"
        /\ payments[i].paidDate /\ payments[j].paidDate
        /\ payments[i].status = "completed"
        /\ payments[j].status = "verified"
        /\ payments[i].amount % 10 = 0
        /\ \E k \in 1..Len(rentStatuses) :
              /\ rentStatuses[k].payments = <<payments[i].id>>
              /\ rentStatuses[k].paid_amount = payments[i].amount
        /\ \E k \in 1..Len(bills) :
              /\ bills[k].payments = <<payments[j].id>>
              /\ bills[k].paid_amount = Min(payments[j].amount, bills[k].total_amount)

----------------------------------------------------------------------------
(* Further claims about the duplicate-preventing PaymentStorage.           *)

\* the [y, m] of a month index
MonthOfIndex(monthIndex) == [y |-> monthIndex \div 12, m |-> (monthIndex % 12) + 1]

\* C17: for a tenant with a lease start, getCurrentPaymentPeriod is the
\* lease-start month advanced by
\* (today.year - start.year) * 12 + (today.month - start.month) months.
C17_PeriodIsLeaseMonthAdvanced ==
    HasPeriod =>
        LET start == CurrentTenant.leaseStart
            monthsSinceStart == (today.y - start.y) * 12 + (today.m - start.m)
        IN getCurrentPaymentPeriod = MonthOfIndex(MonthIndex(start.y, start.m) + monthsSinceStart)

\* the earliest date after `date` whose day of the month is `day`, looking
\* from the month of index monthIndex on
RECURSIVE DayOfMonthAfter(_, _, _)
DayOfMonthAfter(date, day, monthIndex) ==
    LET month == MonthOfIndex(monthIndex)
        candidate == [y |-> month.y, m |-> month.m, d |-> day]
    IN IF day <= DaysInMonth(month.y, month.m) /\ DateLT(date, candidate) THEN candidate
       ELSE DayOfMonthAfter(date, day, monthIndex + 1)

\* C18: for a tenant with leaseStart <= today <= leaseEnd, getNextDueDate is
\* the earliest date after today whose day of the month is the lease-start
\* day, or leaseEnd when that date is later than leaseEnd.
C18_NextDueIsNextLeaseDay ==
    (/\ HasPeriod
     /\ DateLE(CurrentTenant.leaseStart, today)
     /\ DateLE(today, CurrentTenant.leaseEnd))
    => LET due == DayOfMonthAfter(today, CurrentTenant.leaseStart.d,
                                  MonthIndex(today.y, today.m))
       IN getNextDueDate = IF DateLT(CurrentTenant.leaseEnd, due)
                           THEN CurrentTenant.leaseEnd ELSE due

----------------------------------------------------------------------------
(* Claims about amounts, rent statuses and payment ids.                    *)

\* n/den mills rounded half-up to a whole cent, in mills
HalfUp2(n, den) == ((2 * n + 10 * den) \div (20 * den)) * 10

\* C21: every stored bill holds electricity_amount = kWh * rate,
\* water_amount = cubic metres * rate and total_amount = their sum, each
\* rounded half-up to two decimals, for consumptions in whole hundredths and
\* rates in whole cents.
C21_BillAmountsHalfUp ==
    \A k \in 1..Len(bills) :
       /\ bills[k].electricity_amount =
             HalfUp2(bills[k].electricity_kwh * bills[k].electricity_rate, 100)
       /\ bills[k].water_amount = HalfUp2(bills[k].water_cubic * bills[k].water_rate, 100)
       /\ bills[k].total_amount =
             HalfUp2(bills[k].electricity_amount + bills[k].water_amount, 1)

Max(a, b) == IF a >= b THEN a ELSE b

\* C22: every stored RentStatus has remaining_amount =
\* max(0, required_amount - paid_amount), whatever rent payments were
\* verified and reversed.
C22_RemainingIsShortfall ==
    \A i \in 1..Len(rentStatuses) :
       rentStatuses[i].remaining_amount =
          Max(0, rentStatuses[i].required_amount - rentStatuses[i].paid_amount)

\* a rent status overpaid by two applied payments
C22_Witness ==
    \E i \in 1..Len(rentStatuses) :
       /\ Len(rentStatuses[i].payments) = 2
       /\ rentStatuses[i].paid_amount > rentStatuses[i].required_amount

\* the status the amounts of a rent status determine
StatusOfAmounts(paid, required) ==
    IF paid >= required THEN "paid" ELSE IF paid > 0 THEN "partial" ELSE "unpaid"

\* C23: the status of every stored RentStatus is the one its amounts
\* determine ('paid' when paid_amount >= required_amount, else 'partial' when
\* paid_amount > 0, else 'unpaid'), for every required_amount >= 0, freshly
\* created records of tenants without rent or not found included.
C23_StatusFromAmounts ==
    \A i \in 1..Len(rentStatuses) :
       rentStatuses[i].status =
          StatusOfAmounts(rentStatuses[i].paid_amount, rentStatuses[i].required_amount)

\* the records of statuses for (tenantId, month)
RecordsOfKey(statuses, tenantId, month) ==
    {i \in 1..Len(statuses) : statuses[i].tenantId = tenantId /\ statuses[i].month = month}

\* C24: updateRentStatus(tenantId, month, amount, paymentId), called while no
\* RentStatus of (tenantId, month) is stored, leaves exactly one RentStatus
\* of that key in storage, with paid_amount = amount and paymentId in its
\* payments list.
C24_UpdateCreatesAndPersists ==
    \A tenantId \in StatusTenants, month \in {getCurrentMonth, getCurrentMonth + 1},
       amount \in StatusAmounts, paymentId \in 1..(MaxFewPayments + 1) :
       IndexOfKey(rentStatuses, tenantId, month) = 0 =>
          LET after == updateRentStatus(rentStatuses, tenantId, month, amount, paymentId)
              recs == RecordsOfKey(after, tenantId, month)
          IN /\ Cardinality(recs) = 1
             /\ \A i \in recs : /\ after[i].paid_amount = amount
                                /\ \E k \in 1..Len(after[i].payments) :
                                      after[i].payments[k] = paymentId

\* C25: payment ids are unique over the whole history: a step that creates a
\* payment gives it an id that no stored payment has and that the ledger has
\* not recorded for an earlier payment, deleted or not.
C25_PaymentIdsNeverReused ==
    [][Len(payments') = Len(payments) + 1 =>
          LET id == payments'[Len(payments')].id
          IN /\ IndexOfId(payments, id) = 0
             /\ \A i \in 1..Len(rentStatuses) : \A k \in 1..Len(rentStatuses[i].payments) :
                   rentStatuses[i].payments[k] # id
             /\ \A i \in 1..Len(bills) : \A k \in 1..Len(bills[i].payments) :
                   bills[i].payments[k] # id]_vars

----------------------------------------------------------------------------
(* Claims about the admin pages and the login.                             *)

\* the tenants of ts that hold unit u and are not terminated
HoldersOf(ts, u) ==
    {i \in 1..Len(ts) : ts[i].unitAssigned = u /\ ts[i].status # "terminated"}

\* C26: syncUnitsWithTenants, run on the stored tenants and units as the
\* units page does at load and on a storage event, leaves every unit that is
\* the unitAssigned of a tenant who is not terminated 'Occupied' with that
\* tenant's tenantId and name, also when an earlier terminated tenant still
\* has the unit in unitAssigned.  Stated for the units one such tenant holds.
C26_SyncOccupiesAssignedUnits ==
    LET ts == localStorage.tenants
        us == syncUnitsWithTenants(localStorage.units, ts)
    IN \A u \in DOMAIN us : \A i \in HoldersOf(ts, u) :
          HoldersOf(ts, u) = {i} =>
             /\ us[u].status = "Occupied"
             /\ us[u].tenantId = ts[i].tenantId
             /\ us[u].tenantName = ts[i].name

\* rental_contracts marks the contract of a stored tenant who is not yet
\* terminated as terminated
TerminationDue(username) ==
    /\ ContractTerminated(localStorage.rental_contracts, username)
    /\ \E i \in 1..Len(localStorage.tenants) :
          /\ localStorage.tenants[i].username = username
          /\ localStorage.tenants[i].status # "terminated"

\* storage holds the tenant as terminated, its unit vacant without a tenantId
TerminationDone(t) ==
    /\ t.status = "terminated"
    /\ t.unitAssigned \in DOMAIN localStorage.units =>
          /\ localStorage.units[t.unitAssigned].status = "Vacant"
          /\ localStorage.units[t.unitAssigned].tenantId = NoTenant

\* C27: while the tenants page is open, once rental_contracts marks the
\* contract of a tenant terminated, eventually the stored tenant has status
\* 'terminated' and its unit is 'Vacant' with tenantId null (the timer and
\* the storage listener being fair); a tenant deleted meanwhile is held to
\* nothing.
C27_TerminationPropagates ==
    \A username \in ContractUsernames :
       TerminationDue(username) ~>
          \A i \in 1..Len(localStorage.tenants) :
             localStorage.tenants[i].username = username =>
                TerminationDone(localStorage.tenants[i])

\* a tenant whose contract was terminated is stored terminated, its unit vacant
C27_Witness ==
    \E i \in 1..Len(localStorage.tenants) :
       /\ ContractTerminated(localStorage.rental_contracts, localStorage.tenants[i].username)
       /\ localStorage.tenants[i].unitAssigned \in DOMAIN localStorage.units
       /\ TerminationDone(localStorage.tenants[i])

\* the stored tenants with these credentials
TenantsWith(username, password) ==
    {i \in 1..Len(localStorage.tenants) :
        /\ localStorage.tenants[i].username = username
        /\ localStorage.tenants[i].password = password}

UserWith(username, password) ==
    \E i \in 1..Len(localStorage.rentarium_users) :
       /\ localStorage.rentarium_users[i].username = username
       /\ localStorage.rentarium_users[i].password = password

\* C28: login(username, password) returns success, storing the session of
\* username, only when the credentials are those of a rentarium_users record
\* or of a tenant with status 'active'; when they are those of no user and
\* of a tenant with another status, or of nobody, it returns success = false
\* and leaves the stored session as it is.
C28_LoginOnlyForActive ==
    \A username \in LoginUsernames, password \in LoginPasswords :
       LET r == login(localStorage, session, username, password)
           active == {i \in TenantsWith(username, password) :
                         localStorage.tenants[i].status = "active"}
       IN /\ r.success => /\ UserWith(username, password) \/ active # {}
                          /\ r.session = username
          /\ ~UserWith(username, password) /\ active = {} =>
                ~r.success /\ r.session = session

\* a tenant is logged in while another stored tenant, whose status is not
\* 'active', has credentials the login form can be given
C28_Witness ==
    /\ \E i \in 1..Len(localStorage.tenants) : localStorage.tenants[i].username = session
    /\ \E username \in LoginUsernames, password \in LoginPasswords :
          \E i \in TenantsWith(username, password) :
             localStorage.tenants[i].status # "active"

\* C29: with the tenants page and the units page in two tabs, a write of the
\* tenants page never removes a stored unit, and never puts its own older
\* copy of a unit back over the record the units page stored.
C29_TenantsPageKeepsUnits ==
    [][(/\ localStorage'.units # localStorage.units
        /\ unitsPage' = unitsPage
        /\ pending'.tenantsPage = pending.tenantsPage) =>
          \A u \in DOMAIN localStorage.units :
             /\ u \in DOMAIN localStorage'.units
             /\ (u \in DOMAIN tenantsPage.units /\
                 localStorage.units[u] # tenantsPage.units[u]) =>
                   localStorage'.units[u] # tenantsPage.units[u]]_vars

\* C30: in every state reached through the create-tenant form and the
\* tenants page (create, edit, delete, contract-termination sync), each unit
\* is the unitAssigned of at most one tenant who is not terminated.
C30_OneTenantPerUnit ==
    \A u \in DOMAIN localStorage.units :
       Cardinality(HoldersOf(localStorage.tenants, u)) <= 1

====
